---- MODULE Spec2Model ----
(***************************************************************************)
(* Model of vsock_sample/py/vsock-sample.py: the vsock client              *)
(* (VsockStream, client_handler) and the vsock listener (VsockListener,    *)
(* server_handler), composed over a byte-stream transport.                 *)
(*                                                                         *)
(* Text is a sequence of characters, the wire carries bytes.  Two          *)
(* characters are modelled: "a" (one byte in UTF-8) and "e" (a two-byte    *)
(* character, lead byte "L" followed by continuation byte "T").            *)
(***************************************************************************)
EXTENDS Integers, Sequences, FiniteSets, TLC

\* ---------------------------------------------------------------- bounds
\* number of client processes that run client_handler
NumClients == 2
\* longest prompt a client is given, in characters
MaxLen == 1
\* size argument of recv (1024 in the source), scaled to the model's texts
RecvSize == 2
\* capacity, in bytes, of one direction of a connection's transport buffer
BufCap == 2

\* ------------------------------------------------------ program constants
\* VsockListener.__init__(conn_backlog=128)
ConnBacklog == 128

Clients == 1..NumClients
Chars == {"a", "e"}

\* args.prompt when --prompt is omitted: argparse stores None
NoPrompt == <<"None">>

RECURSIVE SeqsUpTo(_)
SeqsUpTo(n) ==
    IF n = 0 THEN {<<>>}
    ELSE LET S == SeqsUpTo(n - 1)
         IN  S \cup {Append(s, c) : s \in {t \in S : Len(t) = n - 1}, c \in Chars}

Texts == SeqsUpTo(MaxLen)

Min(a, b) == IF a < b THEN a ELSE b

\* ------------------------------------------------------ str <-> bytes
\* str.encode(): UTF-8
RECURSIVE Encode(_)
Encode(t) ==
    IF t = <<>> THEN <<>>
    ELSE (IF Head(t) = "a" THEN <<"A">> ELSE <<"L", "T">>) \o Encode(Tail(t))

\* bytes.decode() raises UnicodeDecodeError unless the bytes are whole
\* characters: CanDecode is "decode() does not raise"
RECURSIVE CanDecode(_)
CanDecode(b) ==
    IF b = <<>> THEN TRUE
    ELSE IF Head(b) = "A" THEN CanDecode(Tail(b))
    ELSE IF Head(b) = "L" /\ Len(b) >= 2 /\ b[2] = "T"
         THEN CanDecode(SubSeq(b, 3, Len(b)))
    ELSE FALSE

\* bytes.decode() on bytes for which it does not raise
RECURSIVE Decode(_)
Decode(b) ==
    IF b = <<>> THEN <<>>
    ELSE IF Head(b) = "A" THEN <<"a">> \o Decode(Tail(b))
    ELSE <<"e">> \o Decode(SubSeq(b, 3, Len(b)))

\* the generation collaborator (tokenizer, model.generate, tokenizer.decode)
\* as a deterministic stub keyed by the prompt: the prompt followed by a
\* continuation
Generate(p) == p \o <<"e">>

\* ---------------------------------------------------------------- state
VARIABLES
    \* listener process
    spc,          \* position of the listener process
    model,        \* self.model is set
    tokenizer,    \* self.tokenizer is set
    bound,        \* self.sock is bound and listening
    exitStatus,   \* exit status of the listener process, -1 while it runs
    viaHandler,   \* the listener was started by server_handler
    backlog,      \* established connections not yet accepted
    from_client,  \* the accepted connection being handled, 0 if none
    prompt,       \* local prompt of recv_data
    sendbuf,      \* bytes of response.encode() that sendall has not yet sent
    \* client processes; a process that has ended keeps no memory
    cpc,          \* position of each client process
    cerr,         \* the exception that ended a client, "none" if none
    argsPrompt,   \* args.prompt
    cout,         \* bytes of msg.encode() that sendall has not yet sent
    csock,        \* client socket: "none", "made" (not connected), "open",
                  \* "closed" (close()), "dead" (released at process end)
    \* transport, one connection per client
    c2s,          \* bytes in flight, client to listener
    s2c,          \* bytes in flight, listener to client
    wrShut,       \* the client shut down its write direction
    rst,          \* the client end went away without shutting down
    srvClosed,    \* the listener called close() on the connection
    \* history of the listener and of the connections
    bindCalled,   \* VsockListener.bind was called
    accepted,     \* the listener accepted the connection
    \* history of the connection the listener is handling
    drained,      \* bytes the listener read from it
    sawEof,       \* a read on it returned zero bytes
    readFailed,   \* a read on it raised socket.error
    genCalled,    \* generate was called for it
    wrAttempted,  \* sendall was called on it
    written,      \* reply bytes written to it
    \* history of a running client
    cgot,         \* text the client printed
    creads,       \* number of recv calls that returned, counted up to 2
    \* who drives the VsockStream objects: "client_handler", where an
    \* exception ends the process, or "caller", a program that runs the same
    \* calls, catches what they raise and calls disconnect afterwards
    driver

lvars == <<spc, model, tokenizer, bound, exitStatus, viaHandler, backlog,
           from_client, prompt, sendbuf>>
cvars == <<cpc, cerr, argsPrompt, cout, csock>>
tvars == <<c2s, s2c, wrShut, rst, srvClosed>>
ihist == <<drained, sawEof, readFailed, genCalled, wrAttempted, written>>
chist == <<cgot, creads>>
hvars == <<bindCalled, accepted, ihist, chist>>
vars == <<lvars, cvars, tvars, hvars, driver>>

\* the state after construction of the listener and of the clients
Constructed ==
    /\ spc = "idle"
    /\ model = FALSE
    /\ tokenizer = FALSE
    /\ bound = FALSE
    /\ exitStatus = -1
    /\ viaHandler = FALSE
    /\ backlog = <<>>
    /\ from_client = 0
    /\ prompt = <<>>
    /\ sendbuf = <<>>
    /\ cpc = [c \in Clients |-> "connect"]
    /\ cerr = [c \in Clients |-> "none"]
    /\ argsPrompt = [c \in Clients |-> NoPrompt]
    /\ cout = [c \in Clients |-> <<>>]
    /\ csock = [c \in Clients |-> "none"]
    /\ c2s = [c \in Clients |-> <<>>]
    /\ s2c = [c \in Clients |-> <<>>]
    /\ wrShut = [c \in Clients |-> FALSE]
    /\ rst = [c \in Clients |-> FALSE]
    /\ srvClosed = [c \in Clients |-> FALSE]
    /\ bindCalled = FALSE
    /\ accepted = [c \in Clients |-> FALSE]
    /\ drained = <<>>
    /\ sawEof = FALSE
    /\ readFailed = FALSE
    /\ genCalled = FALSE
    /\ wrAttempted = FALSE
    /\ written = <<>>
    /\ cgot = [c \in Clients |-> <<>>]
    /\ creads = [c \in Clients |-> 0]

Init ==
    /\ Constructed
    /\ driver = "client_handler"

\* ------------------------------------------------------ listener startup
\* an uncaught exception or sys.exit(1) ends the listener process: the
\* interpreter exits with status 1 and the system releases the listening
\* socket with its queue
ListenerExit ==
    /\ spc' = "exited"
    /\ exitStatus' = 1
    /\ bound' = FALSE
    /\ backlog' = <<>>

\* server_handler: server = VsockListener(); model and tokenizer are None
server_handler_start ==
    /\ spc = "idle"
    /\ spc' = "check_path"
    /\ viaHandler' = TRUE
    /\ model' = FALSE
    /\ tokenizer' = FALSE
    /\ UNCHANGED <<bound, exitStatus, backlog, from_client, prompt, sendbuf>>
    /\ UNCHANGED <<cvars, tvars, hvars>>
    /\ UNCHANGED driver

\* a variant of AfterPathCheck: server_handler binds without loading
AfterPathCheck_BindFirst == "bind"

\* server_handler, once the model path exists: the tokenizer and the model
\* are loaded first, server.bind(args.port) comes after them
AfterPathCheck == "load_tokenizer"

\* if not os.path.exists(model_path): sys.exit(1); SystemExit is not an
\* Exception, so the except clause lets it through
server_handler_check_path ==
    /\ spc = "check_path"
    /\ \E exists \in BOOLEAN :
         IF exists
         THEN /\ spc' = AfterPathCheck
              /\ UNCHANGED <<bound, exitStatus, backlog>>
         ELSE ListenerExit
    /\ UNCHANGED <<model, tokenizer, viaHandler, from_client, prompt, sendbuf>>
    /\ UNCHANGED <<cvars, tvars, hvars>>
    /\ UNCHANGED driver

\* a variant of LoadFailed: the except clause prints the exception and
\* server_handler goes on to bind
LoadFailed_Ignored ==
    /\ spc' = "bind"
    /\ UNCHANGED <<bound, exitStatus, backlog>>

\* what the except clause of server_handler does with an exception raised
\* while loading: print it and sys.exit(1)
LoadFailed == ListenerExit

\* server.tokenizer = AutoTokenizer.from_pretrained(model_path)
server_handler_load_tokenizer ==
    /\ spc = "load_tokenizer"
    /\ \E raises \in BOOLEAN :
         IF raises
         THEN /\ LoadFailed
              /\ UNCHANGED tokenizer
         ELSE /\ tokenizer' = TRUE
              /\ spc' = "load_model"
              /\ UNCHANGED <<bound, exitStatus, backlog>>
    /\ UNCHANGED <<model, viaHandler, from_client, prompt, sendbuf>>
    /\ UNCHANGED <<cvars, tvars, hvars>>
    /\ UNCHANGED driver

\* server.model = AutoModelForCausalLM.from_pretrained(model_path)
server_handler_load_model ==
    /\ spc = "load_model"
    /\ \E raises \in BOOLEAN :
         IF raises
         THEN /\ LoadFailed
              /\ UNCHANGED model
         ELSE /\ model' = TRUE
              /\ spc' = "bind"
              /\ UNCHANGED <<bound, exitStatus, backlog>>
    /\ UNCHANGED <<tokenizer, viaHandler, from_client, prompt, sendbuf>>
    /\ UNCHANGED <<cvars, tvars, hvars>>
    /\ UNCHANGED driver

\* a VsockListener used without server_handler: VsockListener() leaves model
\* and tokenizer None, then bind and recv_data are called
VsockListener_init ==
    /\ spc = "idle"
    /\ spc' = "bind"
    /\ viaHandler' = FALSE
    /\ model' = FALSE
    /\ tokenizer' = FALSE
    /\ UNCHANGED <<bound, exitStatus, backlog, from_client, prompt, sendbuf>>
    /\ UNCHANGED <<cvars, tvars, hvars>>
    /\ UNCHANGED driver

\* VsockListener.bind: socket, bind, listen; a bind error is not caught
VsockListener_bind ==
    /\ spc = "bind"
    /\ bindCalled' = TRUE
    /\ \E raises \in BOOLEAN :
         IF raises
         THEN ListenerExit
         ELSE /\ bound' = TRUE
              /\ spc' = "accept"
              /\ UNCHANGED <<exitStatus, backlog>>
    /\ UNCHANGED <<model, tokenizer, viaHandler, from_client, prompt, sendbuf>>
    /\ UNCHANGED <<cvars, tvars, accepted, ihist, chist>>
    /\ UNCHANGED driver

\* ------------------------------------------------- listener accept loop
\* the client end of connection c no longer exists
ClientGone(c) == csock[c] \in {"closed", "dead"}

\* a variant of PromptAtAccept: prompt is set once, before the accept loop
PromptAtAccept_Stale(p) == p

\* prompt = "": the value of prompt when the drain of a connection starts
PromptAtAccept(p) == <<>>

\* (from_client, ...) = self.sock.accept(); prompt = ""
VsockListener_accept ==
    /\ spc = "accept"
    /\ backlog # <<>>
    /\ from_client' = Head(backlog)
    /\ backlog' = Tail(backlog)
    /\ prompt' = PromptAtAccept(prompt)
    /\ spc' = "recv"
    /\ accepted' = [accepted EXCEPT ![Head(backlog)] = TRUE]
    /\ UNCHANGED <<model, tokenizer, bound, exitStatus, viaHandler, sendbuf>>
    /\ UNCHANGED <<cvars, tvars, bindCalled, ihist, chist>>
    /\ UNCHANGED driver

\* a variant of AfterChunk: the request is taken from a single recv
AfterChunk_OneRecv(data) == "decide"

\* where the listener continues after recv returned data: if not data:
\* break; otherwise the while loop reads again
AfterChunk(data) == IF data = <<>> THEN "decide" ELSE "recv"

\* prompt += data
Accumulate(p, data) == p \o data

\* data = from_client.recv(1024).decode() with a non-empty chunk: the
\* transport hands over between 1 and RecvSize of the waiting bytes; a chunk
\* that is not whole characters raises UnicodeDecodeError, which is not a
\* socket.error and ends the process
VsockListener_recv_chunk ==
    /\ spc = "recv"
    /\ c2s[from_client] # <<>>
    /\ \E k \in 1..Min(RecvSize, Len(c2s[from_client])) :
         LET c == from_client
             chunk == SubSeq(c2s[c], 1, k)
         IN  /\ c2s' = [c2s EXCEPT ![c] = SubSeq(c2s[c], k + 1, Len(c2s[c]))]
             /\ drained' = drained \o chunk
             /\ IF CanDecode(chunk)
                THEN /\ prompt' = Accumulate(prompt, Decode(chunk))
                     /\ spc' = AfterChunk(Decode(chunk))
                     /\ UNCHANGED <<exitStatus, bound, backlog>>
                ELSE /\ ListenerExit
                     /\ UNCHANGED prompt
    /\ UNCHANGED <<model, tokenizer, viaHandler, from_client, sendbuf>>
    /\ UNCHANGED <<cvars, s2c, wrShut, rst, srvClosed>>
    /\ UNCHANGED <<bindCalled, accepted, sawEof, readFailed, genCalled, wrAttempted,
                   written, chist>>
    /\ UNCHANGED driver

\* recv returns b"": the client shut down or closed and nothing is waiting;
\* if not data: break
VsockListener_recv_eof ==
    /\ spc = "recv"
    /\ c2s[from_client] = <<>>
    /\ wrShut[from_client] \/ ClientGone(from_client)
    /\ spc' = "decide"
    /\ sawEof' = TRUE
    /\ UNCHANGED <<model, tokenizer, bound, exitStatus, viaHandler, backlog,
                   from_client, prompt, sendbuf>>
    /\ UNCHANGED <<cvars, tvars>>
    /\ UNCHANGED <<bindCalled, accepted, drained, readFailed, genCalled, wrAttempted,
                   written, chist>>
    /\ UNCHANGED driver

\* a variant of AfterReadError: the socket.error of recv is not caught
AfterReadError_Surfaced == "exited"

\* where the listener continues after recv raised socket.error:
\* except socket.error: pass
AfterReadError == "decide"

\* recv raises socket.error: the connection was reset
VsockListener_recv_error ==
    /\ spc = "recv"
    /\ rst[from_client]
    /\ spc' = AfterReadError
    /\ exitStatus' = IF AfterReadError = "exited" THEN 1 ELSE exitStatus
    /\ readFailed' = TRUE
    /\ UNCHANGED <<model, tokenizer, bound, viaHandler, backlog,
                   from_client, prompt, sendbuf>>
    /\ UNCHANGED <<cvars, tvars>>
    /\ UNCHANGED <<bindCalled, accepted, drained, sawEof, genCalled, wrAttempted,
                   written, chist>>
    /\ UNCHANGED driver

\* a variant of ShouldGenerate: the request is not looked at
ShouldGenerate_AnyPrompt(p, m, t) == m /\ t

\* if prompt and self.model and self.tokenizer
ShouldGenerate(p, m, t) == p # <<>> /\ m /\ t

VsockListener_decide ==
    /\ spc = "decide"
    /\ spc' = IF ShouldGenerate(prompt, model, tokenizer)
              THEN "generate" ELSE "close"
    /\ UNCHANGED <<model, tokenizer, bound, exitStatus, viaHandler, backlog,
                   from_client, prompt, sendbuf>>
    /\ UNCHANGED <<cvars, tvars, hvars>>
    /\ UNCHANGED driver

\* a variant of ReplyAfterGenerateError: the request is sent back when the
\* generation raised
ReplyAfterGenerateError_Echo(p) == Encode(p)

\* the bytes written on the connection when the generation raised: the
\* exception passes from_client.sendall(response.encode()), nothing is sent
ReplyAfterGenerateError(p) == <<>>

\* inputs = tokenizer(prompt); outputs = model.generate(...);
\* response = tokenizer.decode(...): the call returns the reply or raises;
\* an exception is not caught
VsockListener_generate ==
    /\ spc = "generate"
    /\ genCalled' = TRUE
    /\ \E raises \in BOOLEAN :
         IF raises
         THEN /\ ListenerExit
              /\ written' = written \o ReplyAfterGenerateError(prompt)
              /\ s2c' = [s2c EXCEPT
                           ![from_client] =
                               @ \o ReplyAfterGenerateError(prompt)]
              /\ UNCHANGED sendbuf
         ELSE /\ sendbuf' = Encode(Generate(prompt))
              /\ spc' = IF Encode(Generate(prompt)) = <<>>
                        THEN "close" ELSE "sendall"
              /\ UNCHANGED <<exitStatus, bound, backlog, written, s2c>>
    /\ UNCHANGED <<model, tokenizer, viaHandler, from_client, prompt>>
    /\ UNCHANGED <<cvars, c2s, wrShut, rst, srvClosed>>
    /\ UNCHANGED <<bindCalled, accepted, drained, sawEof, readFailed, wrAttempted,
                   chist>>
    /\ UNCHANGED driver

\* where the listener continues after sendall raised: the exception is not
\* caught, so from_client.close() is not reached
AfterWriteError == "exited"

\* from_client.sendall(response.encode()): the transport takes the bytes as
\* buffer space allows and sendall returns when it took the last; writing to
\* a connection whose peer is gone raises
VsockListener_sendall ==
    /\ spc = "sendall"
    /\ LET c == from_client
           room == BufCap - Len(s2c[c])
           k == Min(room, Len(sendbuf))
       IN  /\ wrAttempted' = TRUE
           /\ IF ClientGone(c)
              THEN /\ spc' = AfterWriteError
                   /\ exitStatus' = IF AfterWriteError = "exited"
                                    THEN 1 ELSE exitStatus
                   /\ bound' = IF AfterWriteError = "exited"
                               THEN FALSE ELSE bound
                   /\ backlog' = IF AfterWriteError = "exited"
                                 THEN <<>> ELSE backlog
                   /\ UNCHANGED <<sendbuf, s2c, written>>
              ELSE /\ k > 0
                   /\ s2c' = [s2c EXCEPT ![c] = s2c[c] \o SubSeq(sendbuf, 1, k)]
                   /\ written' = written \o SubSeq(sendbuf, 1, k)
                   /\ sendbuf' = SubSeq(sendbuf, k + 1, Len(sendbuf))
                   /\ spc' = IF k = Len(sendbuf) THEN "close" ELSE "sendall"
                   /\ UNCHANGED <<exitStatus, bound, backlog>>
    /\ UNCHANGED <<model, tokenizer, viaHandler, from_client, prompt>>
    /\ UNCHANGED <<cvars, c2s, wrShut, rst, srvClosed>>
    /\ UNCHANGED <<bindCalled, accepted, drained, sawEof, readFailed, genCalled, chist>>
    /\ UNCHANGED driver

\* where the listener continues after from_client.close(): back to accept
AfterClose == "accept"

\* a variant of CloseSocket: the loop goes back to accept without close()
CloseSocket_Skipped(b) == b

\* what from_client.close() makes of "the listener closed the connection"
CloseSocket(b) == TRUE

\* from_client.close(): the socket is released, with anything still waiting
\* to be read on it, and the handling of the connection is over
VsockListener_close ==
    /\ spc = "close"
    /\ srvClosed' = [srvClosed EXCEPT
                       ![from_client] = CloseSocket(srvClosed[from_client])]
    /\ c2s' = [c2s EXCEPT ![from_client] = <<>>]
    /\ from_client' = 0
    /\ spc' = AfterClose
    /\ drained' = <<>>
    /\ sawEof' = FALSE
    /\ readFailed' = FALSE
    /\ genCalled' = FALSE
    /\ wrAttempted' = FALSE
    /\ written' = <<>>
    /\ UNCHANGED <<model, tokenizer, bound, exitStatus, viaHandler, backlog,
                   prompt, sendbuf>>
    /\ UNCHANGED <<cvars, s2c, wrShut, rst>>
    /\ UNCHANGED <<bindCalled, accepted, chist>>
    /\ UNCHANGED driver

\* ---------------------------------------------------------------- client
\* a client process ends: its memory is gone
ClientEnd(c) ==
    /\ argsPrompt' = [argsPrompt EXCEPT ![c] = NoPrompt]
    /\ cout' = [cout EXCEPT ![c] = <<>>]
    /\ cgot' = [cgot EXCEPT ![c] = <<>>]
    /\ creads' = [creads EXCEPT ![c] = 0]

\* an exception leaves client_handler: the process ends without
\* client.disconnect(), and the system releases the socket if one was made.
\* A caller that catches the exception keeps the VsockStream and its socket
\* as they are
ClientRaise(c, e) ==
    /\ cpc' = [cpc EXCEPT ![c] = "raised"]
    /\ cerr' = [cerr EXCEPT ![c] = e]
    /\ IF driver = "caller"
       THEN UNCHANGED <<csock, rst, s2c>>
       ELSE /\ csock' = [csock EXCEPT
                           ![c] = IF csock[c] = "none" THEN "none" ELSE "dead"]
            /\ rst' = [rst EXCEPT
                         ![c] = rst[c] \/ (csock[c] = "open" /\ ~wrShut[c])]
            /\ s2c' = [s2c EXCEPT ![c] = <<>>]
    /\ ClientEnd(c)

\* the listener end of connection c no longer exists
ListenerGone(c) == srvClosed[c] \/ spc = "exited"

\* the listener is in a step that can take arbitrarily long, so that a
\* blocked client operation can outlast the socket's timeout
ListenerSlow == spc = "generate"

\* the timeout in force on the client socket after connect returned:
\* settimeout(self.conn_tmo) is never undone
TimeoutAfterConnect == TRUE

\* client_handler: client = VsockStream(); client.connect(endpoint).
\* VsockStream.connect: socket(), settimeout(conn_tmo), connect(endpoint);
\* the connection is established when the listener's queue takes it.
\* The clients are identical: they are numbered in the order in which they
\* call connect
VsockStream_connect(c) ==
    /\ cpc[c] = "connect"
    /\ \A d \in Clients : d < c => cpc[d] # "connect"
    /\ IF bound /\ Len(backlog) < ConnBacklog
       THEN /\ backlog' = Append(backlog, c)
            /\ csock' = [csock EXCEPT ![c] = "open"]
            /\ cpc' = [cpc EXCEPT ![c] = "encode"]
            /\ UNCHANGED <<cerr, rst>>
       ELSE /\ cpc' = [cpc EXCEPT ![c] = "raised"]
            /\ cerr' = [cerr EXCEPT ![c] = "ConnectError"]
            /\ csock' = [csock EXCEPT ![c] = IF driver = "caller"
                                             THEN "made" ELSE "dead"]
            /\ UNCHANGED <<backlog, rst>>
    /\ UNCHANGED <<argsPrompt, cout>>
    /\ UNCHANGED <<spc, model, tokenizer, bound, exitStatus, viaHandler,
                   from_client, prompt, sendbuf>>
    /\ UNCHANGED <<c2s, s2c, wrShut, srvClosed>>
    /\ UNCHANGED hvars
    /\ UNCHANGED driver

\* a variant of AfterSendall: send_data returns without the half-close
AfterSendall_NoShutdown == "recv"

\* VsockStream.send_data: after sendall returned comes
\* self.sock.shutdown(socket.SHUT_WR)
AfterSendall == "shutdown"

\* msg = args.prompt if hasattr(args, 'prompt') else 'Hello, world!':
\* args always has the attribute, so msg is args.prompt
Msg(p) == p

\* the parsed arguments are read here for the first time: args.prompt is
\* the text given with --prompt, or None.  msg.encode(): None has no encode;
\* sendall of no bytes returns at once
client_handler_encode(c) ==
    /\ cpc[c] = "encode"
    /\ \E p \in Texts \cup {NoPrompt} :
         IF Msg(p) = NoPrompt
         THEN ClientRaise(c, "AttributeError")
         ELSE /\ argsPrompt' = [argsPrompt EXCEPT ![c] = p]
              /\ cout' = [cout EXCEPT ![c] = Encode(Msg(p))]
              /\ cpc' = [cpc EXCEPT ![c] = IF Encode(Msg(p)) = <<>>
                                           THEN AfterSendall ELSE "sendall"]
              /\ UNCHANGED <<cerr, csock, rst, s2c, chist>>
    /\ UNCHANGED lvars
    /\ UNCHANGED <<c2s, wrShut, srvClosed>>
    /\ UNCHANGED <<bindCalled, accepted, ihist>>
    /\ UNCHANGED driver

\* VsockStream.send_data: self.sock.sendall(data): the transport takes the
\* bytes as buffer space allows and sendall returns when it took the last;
\* writing to a connection whose peer is gone raises; blocked on a full
\* buffer, sendall raises socket.timeout when the timeout runs out first
VsockStream_sendall(c) ==
    /\ cpc[c] = "sendall"
    /\ LET room == BufCap - Len(c2s[c])
           k == Min(room, Len(cout[c]))
       IN  IF ListenerGone(c)
           THEN /\ ClientRaise(c, "WriteError")
                /\ UNCHANGED c2s
           ELSE IF k > 0
           THEN /\ c2s' = [c2s EXCEPT ![c] = c2s[c] \o SubSeq(cout[c], 1, k)]
                /\ cout' = [cout EXCEPT
                              ![c] = SubSeq(cout[c], k + 1, Len(cout[c]))]
                /\ cpc' = [cpc EXCEPT ![c] = IF k = Len(cout[c])
                                             THEN AfterSendall ELSE "sendall"]
                /\ UNCHANGED <<cerr, argsPrompt, csock, rst, s2c, chist>>
           ELSE /\ TimeoutAfterConnect /\ ListenerSlow
                /\ ClientRaise(c, "SendTimeout")
                /\ UNCHANGED c2s
    /\ UNCHANGED lvars
    /\ UNCHANGED <<wrShut, srvClosed>>
    /\ UNCHANGED <<bindCalled, accepted, ihist>>
    /\ UNCHANGED driver

\* VsockStream.send_data: self.sock.shutdown(socket.SHUT_WR)
VsockStream_shutdown(c) ==
    /\ cpc[c] = "shutdown"
    /\ wrShut' = [wrShut EXCEPT ![c] = TRUE]
    /\ cpc' = [cpc EXCEPT ![c] = "recv"]
    /\ UNCHANGED <<cerr, argsPrompt, cout, csock>>
    /\ UNCHANGED lvars
    /\ UNCHANGED <<c2s, s2c, rst, srvClosed>>
    /\ UNCHANGED hvars
    /\ UNCHANGED driver

\* creads counts the returned recv calls of a client up to 2
CountRead(n) == Min(n + 1, 2)

\* VsockStream.recv_data: data = self.sock.recv(1024).decode() with a
\* non-empty chunk; print(data).  A chunk that is not whole characters
\* raises UnicodeDecodeError
VsockStream_recv_chunk(c) ==
    /\ cpc[c] = "recv"
    /\ s2c[c] # <<>>
    /\ \E k \in 1..Min(RecvSize, Len(s2c[c])) :
         LET chunk == SubSeq(s2c[c], 1, k)
         IN  IF CanDecode(chunk)
             THEN /\ s2c' = [s2c EXCEPT
                               ![c] = SubSeq(s2c[c], k + 1, Len(s2c[c]))]
                  /\ cgot' = [cgot EXCEPT ![c] = cgot[c] \o Decode(chunk)]
                  /\ creads' = [creads EXCEPT ![c] = CountRead(creads[c])]
                  /\ UNCHANGED <<cpc, cerr, argsPrompt, cout, csock, rst>>
             ELSE ClientRaise(c, "UnicodeDecodeError")
    /\ UNCHANGED lvars
    /\ UNCHANGED <<c2s, wrShut, srvClosed>>
    /\ UNCHANGED <<bindCalled, accepted, ihist>>
    /\ UNCHANGED driver

\* VsockStream.recv_data: recv returns b"" once the listener end is gone and
\* nothing is waiting; if not data: break; print()
VsockStream_recv_eof(c) ==
    /\ cpc[c] = "recv"
    /\ s2c[c] = <<>>
    /\ ListenerGone(c)
    /\ creads' = [creads EXCEPT ![c] = CountRead(creads[c])]
    /\ cpc' = [cpc EXCEPT ![c] = "disconnect"]
    /\ UNCHANGED <<cerr, argsPrompt, cout, csock>>
    /\ UNCHANGED lvars
    /\ UNCHANGED tvars
    /\ UNCHANGED <<bindCalled, accepted, ihist, cgot>>
    /\ UNCHANGED driver

\* VsockStream.recv_data: recv blocks with nothing to read and raises
\* socket.timeout when the socket's timeout runs out first
VsockStream_recv_timeout(c) ==
    /\ cpc[c] = "recv"
    /\ s2c[c] = <<>>
    /\ ~ListenerGone(c)
    /\ TimeoutAfterConnect /\ ListenerSlow
    /\ ClientRaise(c, "RecvTimeout")
    /\ UNCHANGED lvars
    /\ UNCHANGED <<c2s, wrShut, srvClosed>>
    /\ UNCHANGED <<bindCalled, accepted, ihist>>
    /\ UNCHANGED driver

\* a variant of DisconnectRaises: close() of a closed socket raises
DisconnectRaises_Closed(sock) == sock \in {"none", "closed"}

\* self.sock.close() raises when there is no self.sock: connect, which
\* makes it, was never called (AttributeError); close() of a socket object,
\* connected or not, closed or not, does not raise
DisconnectRaises(sock) == sock = "none"

\* the socket after self.sock.close()
SockAfterClose(sock) == "closed"

\* VsockStream.disconnect: self.sock.close(); client_handler returns and
\* the process ends
VsockStream_disconnect(c) ==
    /\ cpc[c] = "disconnect"
    /\ csock' = [csock EXCEPT ![c] = SockAfterClose(csock[c])]
    /\ cpc' = [cpc EXCEPT ![c] = "done"]
    /\ ClientEnd(c)
    /\ UNCHANGED cerr
    /\ UNCHANGED lvars
    /\ UNCHANGED tvars
    /\ UNCHANGED <<bindCalled, accepted, ihist>>
    /\ UNCHANGED driver

\* the client process is interrupted in send_data, before the half-close
\* (KeyboardInterrupt): nothing in client_handler catches it
client_handler_interrupt(c) ==
    /\ cpc[c] \in {"sendall", "shutdown"}
    /\ ClientRaise(c, "Interrupt")
    /\ UNCHANGED lvars
    /\ UNCHANGED <<c2s, wrShut, srvClosed>>
    /\ UNCHANGED <<bindCalled, accepted, ihist>>
    /\ UNCHANGED driver

\* VsockStream.disconnect called by a caller that caught what connect,
\* send_data or recv_data raised, that never connected, or that has already
\* called disconnect (position "again" after the second close)
caller_disconnect(c) ==
    /\ driver = "caller"
    /\ cpc[c] \in {"connect", "raised", "done"}
    /\ IF DisconnectRaises(csock[c])
       THEN /\ cpc' = [cpc EXCEPT ![c] = "raised"]
            /\ cerr' = [cerr EXCEPT ![c] = "AttributeError"]
            /\ UNCHANGED <<csock, rst, s2c>>
       ELSE /\ cpc' = [cpc EXCEPT
                         ![c] = IF cpc[c] = "done" THEN "again" ELSE "done"]
            /\ csock' = [csock EXCEPT ![c] = SockAfterClose(csock[c])]
            /\ rst' = [rst EXCEPT
                         ![c] = rst[c] \/ (csock[c] = "open" /\ ~wrShut[c])]
            /\ s2c' = [s2c EXCEPT ![c] = <<>>]
            /\ UNCHANGED cerr
    /\ UNCHANGED <<argsPrompt, cout>>
    /\ UNCHANGED lvars
    /\ UNCHANGED <<c2s, wrShut, srvClosed>>
    /\ UNCHANGED hvars
    /\ UNCHANGED driver

\* ---------------------------------------------------------- specification
Next ==
    \/ server_handler_start
    \/ server_handler_check_path
    \/ server_handler_load_tokenizer
    \/ server_handler_load_model
    \/ VsockListener_init
    \/ VsockListener_bind
    \/ VsockListener_accept
    \/ VsockListener_recv_chunk
    \/ VsockListener_recv_eof
    \/ VsockListener_recv_error
    \/ VsockListener_decide
    \/ VsockListener_generate
    \/ VsockListener_sendall
    \/ VsockListener_close
    \/ \E c \in Clients : VsockStream_connect(c)
    \/ \E c \in Clients : client_handler_encode(c)
    \/ \E c \in Clients : VsockStream_sendall(c)
    \/ \E c \in Clients : VsockStream_shutdown(c)
    \/ \E c \in Clients : VsockStream_recv_chunk(c)
    \/ \E c \in Clients : VsockStream_recv_eof(c)
    \/ \E c \in Clients : VsockStream_recv_timeout(c)
    \/ \E c \in Clients : VsockStream_disconnect(c)
    \/ \E c \in Clients : client_handler_interrupt(c)

Spec == Init /\ [][Next]_vars

\* VsockStream objects driven by a caller that makes the calls of
\* client_handler, catches what they raise and calls disconnect afterwards,
\* more than once, against a VsockListener used without server_handler: it
\* has no model, so that it drains every request and replies to none
InitCaller ==
    /\ Constructed
    /\ driver = "caller"

CallerNext ==
    \/ VsockListener_init
    \/ VsockListener_bind
    \/ VsockListener_accept
    \/ VsockListener_recv_chunk
    \/ VsockListener_recv_eof
    \/ VsockListener_recv_error
    \/ VsockListener_decide
    \/ VsockListener_close
    \/ \E c \in Clients : VsockStream_connect(c)
    \/ \E c \in Clients : client_handler_encode(c)
    \/ \E c \in Clients : VsockStream_sendall(c)
    \/ \E c \in Clients : VsockStream_shutdown(c)
    \/ \E c \in Clients : VsockStream_recv_eof(c)
    \/ \E c \in Clients : VsockStream_disconnect(c)
    \/ \E c \in Clients : client_handler_interrupt(c)
    \/ \E c \in Clients : caller_disconnect(c)

CallerSpec == InitCaller /\ [][CallerNext]_vars

\* one client process against the listener, each of the two processes
\* being run whenever it can take a step: the listener is one thread, and
\* so is client_handler; a blocked call returns when what it waits for is
\* there, a generation call returns or raises
ListenerNext ==
    \/ server_handler_start
    \/ server_handler_check_path
    \/ server_handler_load_tokenizer
    \/ server_handler_load_model
    \/ VsockListener_init
    \/ VsockListener_bind
    \/ VsockListener_accept
    \/ VsockListener_recv_chunk
    \/ VsockListener_recv_eof
    \/ VsockListener_recv_error
    \/ VsockListener_decide
    \/ VsockListener_generate
    \/ VsockListener_sendall
    \/ VsockListener_close

ClientNext(c) ==
    \/ VsockStream_connect(c)
    \/ client_handler_encode(c)
    \/ VsockStream_sendall(c)
    \/ VsockStream_shutdown(c)
    \/ VsockStream_recv_chunk(c)
    \/ VsockStream_recv_eof(c)
    \/ VsockStream_recv_timeout(c)
    \/ VsockStream_disconnect(c)

OneClientNext ==
    \/ ListenerNext
    \/ ClientNext(1)

OneClientFairSpec ==
    /\ Init
    /\ [][OneClientNext]_vars
    /\ WF_vars(ListenerNext)
    /\ WF_vars(ClientNext(1))

\* ----------------------------------------------------------------- claims
IsPrefix(a, b) == Len(a) <= Len(b) /\ SubSeq(b, 1, Len(a)) = a

\* the reply the listener owes to the bytes it drained from the connection
\* it is handling
ReplyFor(bytes) == Encode(Generate(Decode(bytes)))

\* C1: round trip.  No client's recv_data fails with a timeout or a decoding
\* error, and a client that sent a non-empty text R to a listener with a
\* loaded model whose generation call returned has printed exactly f(R) when
\* its receive loop has ended.
C1_RoundTrip ==
    \A c \in Clients :
        /\ cerr[c] \notin {"RecvTimeout", "UnicodeDecodeError"}
        /\ ( /\ cpc[c] = "disconnect"
             /\ argsPrompt[c] # <<>>
             /\ model /\ tokenizer
             /\ ~(spc = "exited" /\ (from_client # c \/ genCalled)) )
           => cgot[c] = Generate(argsPrompt[c])

\* C2, as claimed: the listener attempts to write a reply on a connection
\* only after a read on that connection returned zero bytes.
C2_WriteOnlyAfterEof ==
    (spc = "sendall" \/ wrAttempted) => sawEof

\* C2, amended: the listener attempts to write a reply on a connection only
\* after the drain of that connection has ended, by a read that returned
\* zero bytes or by a read that raised a socket error.
C2_WriteOnlyAfterDrainEnded ==
    (spc = "sendall" \/ wrAttempted) => (sawEof \/ readFailed)

\* a reply is being written after a read returned zero bytes
C2_Witness ==
    /\ spc = "sendall"
    /\ wrAttempted
    /\ sawEof
    /\ written # <<>>

\* C3: empty-request policy.  When the request is empty or the model or the
\* tokenizer is not set, the listener reaches close() without having called
\* generate and without having written a byte, and a client whose request
\* was empty or whose listener has no model leaves its receive loop only by
\* end-of-stream on its first read, having printed nothing.
C3_EmptyRequest ==
    /\ [](spc = "close" /\ ~ShouldGenerate(prompt, model, tokenizer)
            => ~genCalled /\ written = <<>>)
    /\ [][\A c \in Clients :
            ( /\ cpc[c] = "recv"
              /\ cpc'[c] # "recv"
              /\ (argsPrompt[c] = <<>> \/ ~model \/ ~tokenizer) )
            => ( /\ cpc'[c] = "disconnect"
                 /\ creads'[c] = 1
                 /\ cgot'[c] = <<>> )]_vars

\* C4: sequential isolation.  The reply bytes written on the connection
\* being handled are the reply to the bytes drained from that connection and
\* to nothing else: while the reply is written the bytes written so far are
\* a prefix of it, and when the listener closes a connection for which it
\* called generate, it has written exactly that reply.
C4_Isolation ==
    /\ written # <<>> =>
         /\ CanDecode(drained)
         /\ IsPrefix(written, ReplyFor(drained))
         /\ written \o sendbuf = ReplyFor(drained)
    /\ (spc = "close" /\ genCalled) => written = ReplyFor(drained)
    /\ ~genCalled => written = <<>>

\* the listener has written the whole reply on a connection it accepted
\* after it closed another one
C4_Witness ==
    /\ spc = "close"
    /\ from_client # 0
    /\ \E d \in Clients : d # from_client /\ srvClosed[d]
    /\ genCalled
    /\ Len(drained) >= 1
    /\ written = ReplyFor(drained)

\* the accepted connections that the listener has not closed
OpenAccepted == {c \in Clients : accepted[c] /\ ~srvClosed[c]}

\* C5: one connection at a time.  At most one accepted connection is open,
\* and the listener is in accept only when every connection it accepted has
\* been closed.
C5_OneConnection ==
    /\ Cardinality(OpenAccepted) <= 1
    /\ spc = "accept" => OpenAccepted = {}

\* one accepted connection is open while another one waits in the queue
C5_Witness ==
    /\ from_client # 0
    /\ OpenAccepted = {from_client}
    /\ backlog # <<>>

\* C6: once connect has returned, no operation of the client fails with a
\* timeout.
C6_NoTimeoutAfterConnect ==
    \A c \in Clients : cerr[c] \notin {"SendTimeout", "RecvTimeout"}

\* C7: close on every exit path.  A client process that has ended has closed
\* the socket it created, and a listener process that has ended has closed
\* the connection it was handling.
C7_ClosedOnEveryExit ==
    /\ \A c \in Clients :
         cpc[c] \in {"done", "raised"} => csock[c] \in {"none", "closed"}
    /\ (spc = "exited" /\ from_client # 0) => srvClosed[from_client]

\* C8: when the listener's handling of a connection has ended after the
\* write of the reply was attempted, the connection has been closed.
C8_CloseAfterWrite ==
    (spc = "exited" /\ wrAttempted) => srvClosed[from_client]

\* server_handler has left the loading of the model without both the
\* tokenizer and the model
StartupFailed ==
    /\ viaHandler
    /\ ~(model /\ tokenizer)
    /\ spc \notin {"check_path", "load_tokenizer", "load_model"}

\* C9: startup failure.  When the model path does not exist or loading
\* raises, the process has exited with status 1, bind was never called, the
\* port is not bound and no connection was accepted.
C9_StartupFailure ==
    StartupFailed =>
        /\ spc = "exited"
        /\ exitStatus = 1
        /\ ~bindCalled
        /\ ~bound
        /\ \A c \in Clients : ~accepted[c] /\ csock[c] # "open"

\* startup has failed and a client's later attempt to connect has failed
C9_Witness ==
    /\ StartupFailed
    /\ spc = "exited"
    /\ \E c \in Clients : cerr[c] = "ConnectError"

C11_DecodeDoesNotAbort ==
    \A c \in Clients : cerr[c] # "UnicodeDecodeError"

\* the state of connection d as the transport and the two ends hold it
ConnState(d) ==
    <<cpc[d], cerr[d], csock[d], c2s[d], s2c[d], wrShut[d], rst[d],
      srvClosed[d], accepted[d]>>

\* C12: idempotent close.  A disconnect called on a VsockStream whose socket
\* was made (already closed, or left by a connect, send_data or recv_data
\* that raised) raises nothing, leaves the socket closed and changes the
\* state of no other connection.
C12_IdempotentClose ==
    [][\A c \in Clients :
         ( /\ cpc[c] \in {"raised", "done"}
           /\ csock[c] # "none"
           /\ <<cpc[c], cerr[c], csock[c]>>' # <<cpc[c], cerr[c], csock[c]>> )
         => ( /\ cpc'[c] \in {"done", "again"}
              /\ cerr'[c] = cerr[c]
              /\ csock'[c] = "closed"
              /\ \A d \in Clients \ {c} : ConnState(d)' = ConnState(d) )]_vars

\* a VsockStream that client_handler's calls had closed was closed a second
\* time, and another one was closed after its send_data had raised
C12_Witness ==
    \E c, d \in Clients :
        /\ c # d
        /\ cpc[c] = "again"
        /\ cerr[c] = "none"
        /\ csock[c] = "closed"
        /\ cpc[d] = "done"
        /\ csock[d] = "closed"
        /\ cerr[d] = "WriteError"

\* the text 'Hello, world!' of client_handler: an ASCII text, as the text "a"
DefaultPrompt == <<"a">>

\* the text the client is to send: the text given with --prompt, or the
\* default text when --prompt was omitted
PromptOrDefault(p) == IF p = NoPrompt THEN DefaultPrompt ELSE p

\* C13: default prompt.  When client_handler has taken its message from the
\* parsed arguments, the payload it hands to send_data is the encoding of
\* the text given with --prompt, or of the default text when --prompt was
\* omitted.
C13_DefaultPrompt ==
    [][\A c \in Clients :
         (cpc[c] = "encode" /\ cpc'[c] # "encode")
         => ( /\ cpc'[c] \in {"sendall", "shutdown"}
              /\ cout'[c] = Encode(PromptOrDefault(argsPrompt'[c])) )]_vars

\* the phase of the connection the listener is handling, by the position of
\* the listener: 1 draining (entered at accept), 2 drain ended, 3 generating,
\* 4 replying, 5 reply ended and close() next
PhaseOf(pc) ==
    CASE pc = "recv" -> 1
      [] pc = "decide" -> 2
      [] pc = "generate" -> 3
      [] pc = "sendall" -> 4
      [] pc = "close" -> 5
      [] OTHER -> 0

\* C14: per-connection phase order on the listener.  In every step: a
\* connection that stays the one being handled moves to no earlier phase; a
\* connection is taken up only by accept and only if it was never accepted
\* before, and given up only by close(); generate is called only after the
\* drain ended; the first reply byte is written only in the reply phase,
\* which follows the return of generate; close() happens only when nothing
\* of the reply is left to write; the step that ends the drain skips the
\* generation exactly when the request is empty or the model or the
\* tokenizer is not set; a closed connection stays closed.
C14_PhaseOrder ==
    [][/\ (from_client # 0 /\ from_client' = from_client /\ spc' # "exited")
            => (PhaseOf(spc') >= PhaseOf(spc) /\ PhaseOf(spc) >= 1)
       /\ from_client' # from_client
            => \/ /\ from_client = 0
                  /\ spc = "accept" /\ spc' = "recv"
                  /\ ~accepted[from_client'] /\ ~srvClosed[from_client']
               \/ /\ from_client' = 0
                  /\ spc = "close" /\ spc' = "accept"
                  /\ srvClosed'[from_client]
       /\ (spc' = "generate" /\ spc # "generate")
            => (spc = "decide" /\ (sawEof \/ readFailed))
       /\ (genCalled' /\ ~genCalled)
            => (spc = "generate" /\ (sawEof \/ readFailed))
       /\ (written' # <<>> /\ written = <<>>)
            => (spc = "sendall" /\ genCalled
                /\ written' \o sendbuf' = ReplyFor(drained))
       /\ \A c \in Clients :
            (srvClosed'[c] /\ ~srvClosed[c])
            => ( /\ from_client = c /\ spc = "close" /\ sendbuf = <<>>
                 /\ genCalled => written = ReplyFor(drained) )
       /\ (spc = "decide" /\ spc' # "decide")
            => ( /\ spc' \in {"generate", "close"}
                 /\ spc' = "close"
                      <=> (Decode(drained) = <<>> \/ ~model \/ ~tokenizer) )
       /\ \A c \in Clients : srvClosed[c] => srvClosed'[c]
      ]_vars

\* a connection has gone through every phase: drained to end-of-stream,
\* generated for, replied to in full, and close() is next
C14_Witness ==
    /\ spc = "close"
    /\ from_client # 0
    /\ sawEof
    /\ genCalled
    /\ wrAttempted
    /\ written # <<>>
    /\ sendbuf = <<>>

\* C15: the accept loop keeps serving.  The listener process does not end
\* while it handles a connection whose drain has ended and whose generation
\* call has returned: it goes on to close() and to accept, also when the
\* write of the reply fails.
C15_AcceptLoopKeepsServing ==
    ~( /\ spc = "exited"
       /\ from_client # 0
       /\ (sawEof \/ readFailed)
       /\ genCalled
       /\ sendbuf # <<>> )

\* C16: a stuck client stalls the listener.  The listener leaves the drain
\* of a connection only for the step after the drain, after a read returned
\* zero bytes or raised a socket error; and as long as the client of the
\* connection being handled has its socket open and has not shut down its
\* write direction, the listener is in the drain of that connection and has
\* neither called generate nor written a reply byte.
C16_StuckClientStalls ==
    /\ [][(spc = "recv" /\ spc' # "recv")
            => (spc' = "decide" /\ (sawEof' \/ readFailed'))]_vars
    /\ []( ( /\ from_client # 0
             /\ csock[from_client] = "open"
             /\ ~wrShut[from_client] )
           => (spc = "recv" /\ ~genCalled /\ written = <<>>) )

\* the listener process ended in the generation call of the connection it
\* was handling: generate was called and sendall never was
GenRaised == spc = "exited" /\ genCalled /\ ~wrAttempted

\* C17: generation failure yields no reply.  When the generation call made
\* for a connection has raised, no reply byte has been written to that
\* connection, none is in flight to its client and its client has received
\* none.
C17_NoReplyAfterGenerateError ==
    GenRaised =>
        /\ written = <<>>
        /\ s2c[from_client] = <<>>
        /\ cgot[from_client] = <<>>

\* the generation for a non-empty request has raised, and the client of
\* that connection has read end-of-stream at once
C17_Witness ==
    /\ GenRaised
    /\ prompt # <<>>
    /\ cpc[from_client] = "disconnect"
    /\ creads[from_client] = 1
    /\ cgot[from_client] = <<>>

\* the order of the positions of a client process
StepOf(pc) ==
    CASE pc = "connect" -> 0
      [] pc = "encode" -> 1
      [] pc = "sendall" -> 2
      [] pc = "shutdown" -> 3
      [] pc = "recv" -> 4
      [] pc = "disconnect" -> 5
      [] pc = "done" -> 6
      [] OTHER -> 7

\* the request bytes of connection c that have left its client: those the
\* listener has read from it and those in flight
Sent(c) == (IF from_client = c THEN drained ELSE <<>>) \o c2s[c]

\* C18: client phase discipline.  A client goes through connect, write,
\* half-close, reads and close in this order, or ends by an exception.  It
\* half-closes only in the step after a sendall that returned, with nothing
\* of the payload left, and then the whole payload has left it; it writes
\* only before the half-close and reads only after it; it closes only after
\* it read end-of-stream.
C18_ClientPhases ==
    /\ [](\A c \in Clients :
            /\ cpc[c] \in {"sendall", "shutdown"}
                 => (~wrShut[c] /\ creads[c] = 0 /\ cgot[c] = <<>>)
            /\ cpc[c] \in {"recv", "disconnect"}
                 => (wrShut[c] /\ cout[c] = <<>>)
            /\ (cpc[c] \in {"recv", "disconnect"} /\ ~srvClosed[c])
                 => Sent(c) = Encode(argsPrompt[c])
            /\ cerr[c] \in {"WriteError", "SendTimeout", "Interrupt"}
                 => ~wrShut[c])
    /\ [][\A c \in Clients :
            /\ cpc'[c] # cpc[c]
                 => (cpc'[c] = "raised" \/ StepOf(cpc'[c]) = StepOf(cpc[c]) + 1
                     \/ (cpc[c] = "encode" /\ cpc'[c] = "shutdown"))
            /\ (wrShut'[c] /\ ~wrShut[c])
                 => (cpc[c] = "shutdown" /\ cpc'[c] = "recv" /\ cout[c] = <<>>)
            /\ wrShut[c] => Len(c2s'[c]) <= Len(c2s[c])
            /\ (csock'[c] = "closed" /\ csock[c] # "closed")
                 => (cpc[c] = "disconnect" /\ s2c[c] = <<>> /\ wrShut[c])
         ]_vars

\* a client has written its payload, half-closed, read the reply in two
\* reads and end-of-stream, and close is next
C18_Witness ==
    \E c \in Clients :
        /\ cpc[c] = "disconnect"
        /\ wrShut[c]
        /\ argsPrompt[c] # <<>>
        /\ cgot[c] = Generate(argsPrompt[c])
        /\ creads[c] = 2

\* the positions of the accept loop of recv_data
LoopSteps == {"accept", "recv", "decide", "generate", "sendall", "close"}

\* C19: the generation context is set before binding and read-only
\* afterwards.  Whenever the listener started by server_handler is bound or
\* in its accept loop, the model and the tokenizer are set; and no step of
\* the accept loop changes the model, the tokenizer or the listening socket.
C19_ContextReadOnly ==
    /\ []((viaHandler /\ (bound \/ bindCalled \/ spc \in LoopSteps))
            => (model /\ tokenizer))
    /\ [][(spc \in LoopSteps /\ spc' \in LoopSteps)
            => ( /\ model' = model
                 /\ tokenizer' = tokenizer
                 /\ bound /\ bound' )]_vars

\* the listener started by server_handler, with its model and tokenizer, has
\* generated a reply on its second connection and is back at close()
C19_Witness ==
    /\ viaHandler
    /\ bound
    /\ model /\ tokenizer
    /\ spc = "close"
    /\ genCalled
    /\ \E c \in Clients : srvClosed[c]

\* the client of connection c waits for the listener: in sendall with no
\* room in the buffer, or in recv with nothing to read
ClientBlocked(c) ==
    /\ ~ListenerGone(c)
    /\ \/ cpc[c] = "sendall" /\ Len(c2s[c]) = BufCap
       \/ cpc[c] = "recv" /\ s2c[c] = <<>>

\* the listener waits for the client of connection c: in recv with nothing
\* to read and the write direction open, or in sendall with no room
ListenerBlocked(c) ==
    /\ from_client = c
    /\ ~ClientGone(c)
    /\ \/ spc = "recv" /\ c2s[c] = <<>> /\ ~wrShut[c]
       \/ spc = "sendall" /\ Len(s2c[c]) = BufCap

\* C20: no deadlock between the two roles.  With one client and a listener,
\* the client and the listener are never both waiting for each other; and a
\* client that has connected and has a payload to send eventually has read
\* end-of-stream and closed, the listener having closed the connection,
\* unless the generation call raised.
C20_NoDeadlock ==
    /\ [](\A c \in Clients : ~(ClientBlocked(c) /\ ListenerBlocked(c)))
    /\ \A c \in Clients :
         (cpc[c] \in {"sendall", "shutdown"})
         ~> (GenRaised \/ (cpc[c] = "done" /\ srvClosed[c]))

====
